---- MODULE Spec2Model ----
(***************************************************************************)
(* Model of examples/tutorial_pose/dllExportFile.cpp: the exported         *)
(* function openPoseDemo, the gflags globals it reads and the op::Wrapper  *)
(* object it configures and runs.                                          *)
(*                                                                         *)
(* The FLAGS_ globals are the inputs of openPoseDemo: each call reads the  *)
(* values the process holds at that moment.  The steps of the function are *)
(* the actions; pc is the position of the calling thread.  The only call   *)
(* of gflags::ParseCommandLineFlags is in main (lines 294-303), which is   *)
(* commented out, so no action sets parsedCommandLine.                     *)
(***************************************************************************)
EXTENDS Integers, Sequences, FiniteSets, TLC

VARIABLES
    pc,                 \* position of the calling thread inside openPoseDemo
    calls,              \* number of calls of openPoseDemo made so far
    flags,              \* the FLAGS_ globals
    parsedCommandLine,  \* gflags::ParseCommandLineFlags has run in this process
    priorityThreshold,  \* op::ConfigureLog threshold: <<>> until set, then <<v>>
    thresholdSetInCall, \* setPriorityThreshold was called by the current call
    errorMessage,       \* message of the error raised by the current call, <<>> if none
    converted,          \* locals of lines 191-207, <<>> until computed
    structs,            \* the five local wrapperStruct* objects, <<>> until built
    configured,         \* what opWrapper.configure received, <<>> until configured
    configureCalls,     \* calls of opWrapper.configure in the current call
    singleThread,       \* opWrapper.disableMultiThreading was called in the current call
    execCalls,          \* calls of opWrapper.exec in the current call
    threads,            \* pipeline threads started by the current call and still running
    result,             \* <<>> until openPoseDemo returns, then <<return value>>
    trace               \* the steps the current call has completed, in order

vars == <<pc, calls, flags, parsedCommandLine, priorityThreshold, thresholdSetInCall,
          errorMessage, converted, structs, configured, configureCalls, singleThread,
          execCalls, threads, result, trace>>

(***************************************************************************)
(* Bounds of the model.                                                    *)
(***************************************************************************)
MaxCalls == 2
NumPipelineThreads == 2

(***************************************************************************)
(* 64-bit unsigned values (DEFINE_uint64) as four 16-bit limbs, most       *)
(* significant first, so that 2^64 - 1 is representable.                   *)
(***************************************************************************)
LimbBase == 65536

Uint64FromInt(n) ==
    IF n >= 0
    THEN <<0, 0, n \div LimbBase, n % LimbBase>>
    ELSE \* conversion of a negative int to unsigned: 2^64 + n
         <<LimbBase - 1, LimbBase - 1,
           (LimbBase - 1) - (((-n) - 1) \div LimbBase),
           (LimbBase - 1) - (((-n) - 1) % LimbBase)>>

Uint64Max == <<LimbBase - 1, LimbBase - 1, LimbBase - 1, LimbBase - 1>>

RECURSIVE LimbsLeq(_, _, _)
LimbsLeq(a, b, i) ==
    IF i > Len(a) THEN TRUE
    ELSE IF a[i] < b[i] THEN TRUE
    ELSE IF a[i] > b[i] THEN FALSE
    ELSE LimbsLeq(a, b, i + 1)

Uint64Leq(a, b) == LimbsLeq(a, b, 1)

(***************************************************************************)
(* IEEE-754 values.  A double is sign * (hi * 2^29 + lo) * 2^exp with a    *)
(* 53-bit significand split in its upper 24 bits (hi) and lower 29 bits    *)
(* (lo); a float is sign * mant * 2^exp with a 24-bit significand.  Zero   *)
(* has hi = lo = 0.  Only the normal range of float is used.               *)
(***************************************************************************)
LowBits == 29
LowHalf == 268435456
FloatMantLimit == 16777216

Double(neg, hi, lo, exp) == [neg |-> neg, hi |-> hi, lo |-> lo, exp |-> exp]

\* (float)d: round to nearest, ties to even
ToFloat(d) ==
    LET up == \/ d.lo > LowHalf
              \/ d.lo = LowHalf /\ d.hi % 2 = 1
        m  == IF up THEN d.hi + 1 ELSE d.hi
    IN  IF d.hi = 0 /\ d.lo = 0
        THEN [neg |-> d.neg, mant |-> 0, exp |-> 0]
        ELSE IF m = FloatMantLimit
        THEN [neg |-> d.neg, mant |-> FloatMantLimit \div 2, exp |-> d.exp + LowBits + 1]
        ELSE [neg |-> d.neg, mant |-> m, exp |-> d.exp + LowBits]

\* the double that has exactly the value of float f
FloatAsDouble(f) ==
    IF f.mant = 0
    THEN Double(f.neg, 0, 0, 0)
    ELSE Double(f.neg, f.mant, 0, f.exp - LowBits)

\* the double constants used as flag values
D_0_6  == Double(FALSE, 10066329, 322122547, -53)
D_0_7  == Double(FALSE, 11744051, 107374182, -53)
D_0_3  == Double(FALSE, 10066329, 322122547, -54)
D_0_05 == Double(FALSE, 13421772, 429496730, -57)
D_0_4  == Double(FALSE, 13421772, 429496730, -54)
D_0_2  == Double(FALSE, 13421772, 429496730, -55)
D_30   == Double(FALSE, 15728640, 0, -48)
D_1_5  == Double(FALSE, 12582912, 0, -52)
D_m0_5 == Double(TRUE, 8388608, 0, -53)
D_0    == Double(FALSE, 0, 0, 0)

(***************************************************************************)
(* The flags (DEFINE_* lines 35-174) with their compiled-in defaults.      *)
(***************************************************************************)
DefaultFlags ==
    [ logging_level |-> 3,
      disable_multi_thread |-> FALSE,
      camera |-> -1,
      camera_resolution |-> "1280x720",
      camera_fps |-> D_30,
      video |-> "",
      image_dir |-> "",
      ip_camera |-> "",
      frame_first |-> Uint64FromInt(0),
      frame_last |-> Uint64FromInt(-1),
      frame_flip |-> FALSE,
      frame_rotate |-> 0,
      frames_repeat |-> FALSE,
      process_real_time |-> FALSE,
      model_folder |-> "Assets/Dependencies/models/",
      output_resolution |-> "-1x-1",
      num_gpu |-> -1,
      num_gpu_start |-> 0,
      keypoint_scale |-> 0,
      identification |-> FALSE,
      body_disable |-> FALSE,
      model_pose |-> "COCO",
      net_resolution |-> "-1x368",
      scale_number |-> 1,
      scale_gap |-> D_0_3,
      heatmaps_add_parts |-> FALSE,
      heatmaps_add_bkg |-> FALSE,
      heatmaps_add_PAFs |-> FALSE,
      face |-> FALSE,
      face_net_resolution |-> "368x368",
      hand |-> FALSE,
      hand_net_resolution |-> "368x368",
      hand_scale_number |-> 1,
      hand_scale_range |-> D_0_4,
      hand_tracking |-> FALSE,
      part_to_show |-> 0,
      disable_blending |-> FALSE,
      render_threshold |-> D_0_05,
      render_pose |-> 2,
      alpha_pose |-> D_0_6,
      alpha_heatmap |-> D_0_7,
      face_render_threshold |-> D_0_4,
      face_render |-> -1,
      face_alpha_pose |-> D_0_6,
      face_alpha_heatmap |-> D_0_7,
      hand_render_threshold |-> D_0_2,
      hand_render |-> -1,
      hand_alpha_pose |-> D_0_6,
      hand_alpha_heatmap |-> D_0_7,
      fullscreen |-> FALSE,
      no_gui_verbose |-> FALSE,
      no_display |-> FALSE,
      write_images |-> "",
      write_images_format |-> "png",
      write_video |-> "",
      write_keypoint |-> "",
      write_keypoint_format |-> "yml",
      write_keypoint_json |-> "",
      write_coco_json |-> "",
      write_heatmaps |-> "",
      write_heatmaps_format |-> "png" ]

\* f with the fields of the record g replaced by g's values
Override(f, g) ==
    [k \in DOMAIN f |-> IF k \in DOMAIN g THEN g[k] ELSE f[k]]

(***************************************************************************)
(* The flag values a call is made with: the defaults with one group of     *)
(* flags set to every combination of the values listed for it.             *)
(***************************************************************************)
LoggingFlagValues ==
    [ logging_level : {-1, 0, 3, 255, 256},
      disable_multi_thread : BOOLEAN ]

RenderFlagValues ==
    [ render_pose : {0, 1, 2, 3},
      face_render : {-1, 0, 1, 2},
      hand_render : {-1, 0, 1, 2, 3} ]

NegatedFlagValues ==
    [ body_disable : BOOLEAN, disable_blending : BOOLEAN,
      no_display : BOOLEAN, no_gui_verbose : BOOLEAN ]

PlainFlagValues ==
    [ face : BOOLEAN, hand : BOOLEAN, hand_tracking : BOOLEAN,
      fullscreen : BOOLEAN, process_real_time : BOOLEAN,
      frame_flip : BOOLEAN, frames_repeat : BOOLEAN,
      identification : BOOLEAN ]

ScaleFlagValues ==
    [ alpha_pose : {D_0_6, D_1_5, D_m0_5},
      scale_gap : {D_0_3, D_0, D_m0_5},
      scale_number : {1, 2},
      frame_rotate : {0, 90, 45} ]

ShowFlagValues ==
    [ alpha_heatmap : {D_0_7, D_1_5},
      camera : {-1, 12},
      part_to_show : {0, 99},
      render_threshold : {D_0_05, D_1_5} ]

ThresholdFlagValues ==
    [ face_render_threshold : {D_0_4, D_m0_5},
      hand_render_threshold : {D_0_2, D_1_5},
      hand_scale_range : {D_0_4, D_0},
      face_alpha_pose : {D_0_6, D_1_5},
      hand_alpha_heatmap : {D_0_7, D_m0_5} ]

FrameFlagValues ==
    [ frame_first : {Uint64FromInt(0), Uint64FromInt(5), Uint64FromInt(70000)},
      frame_last : {Uint64FromInt(-1), Uint64FromInt(-2), Uint64FromInt(10),
                    Uint64FromInt(3)} ]

ModelFlagValues ==
    [ model_pose : {"COCO", "MPI", "BODY_99"},
      keypoint_scale : {0, 3, 7},
      net_resolution : {"-1x368", "656x"} ]

SourceFlagValues ==
    [ write_keypoint_format : {"yml", "json", "txt"},
      video : {"", "examples/media/video.avi"},
      image_dir : {"", "examples/media/"},
      heatmaps_add_parts : BOOLEAN,
      heatmaps_add_PAFs : BOOLEAN ]

OverrideAll(S) == { Override(DefaultFlags, g) : g \in S }

FlagValues ==
    OverrideAll(LoggingFlagValues) \cup OverrideAll(RenderFlagValues)
    \cup OverrideAll(NegatedFlagValues) \cup OverrideAll(PlainFlagValues)
    \cup OverrideAll(ScaleFlagValues) \cup OverrideAll(ShowFlagValues)
    \cup OverrideAll(ThresholdFlagValues) \cup OverrideAll(FrameFlagValues)
    \cup OverrideAll(ModelFlagValues) \cup OverrideAll(SourceFlagValues)

(***************************************************************************)
(* The library functions openPoseDemo calls (op::check, op::flagsTo*,      *)
(* op::stringToDataFormat).  A call that raises yields Error (the empty    *)
(* tuple where the result is a point).                                     *)
(***************************************************************************)
Error == "Error"

\* op::check(condition, message, ...): raises message unless condition holds
check(condition, message) == IF condition THEN <<>> ELSE <<message>>

\* (op::Priority)n: Priority is an enum over unsigned char
ToPriority(n) == n % 256

flagsToPoint(str) ==
    CASE str = "-1x-1"    -> <<-1, -1>>
      [] str = "-1x368"   -> <<-1, 368>>
      [] str = "368x368"  -> <<368, 368>>
      [] str = "1280x720" -> <<1280, 720>>
      [] OTHER            -> <<>>

flagsToProducer(imageDir, videoPath, ipCamera, webcamIndex, webcamResolution, webcamFps) ==
    LET given == (IF imageDir # "" THEN 1 ELSE 0) + (IF videoPath # "" THEN 1 ELSE 0)
                 + (IF ipCamera # "" THEN 1 ELSE 0)
    IN  IF given > 1 THEN [type |-> Error]
        ELSE IF imageDir # "" THEN [type |-> "ImageDirectory", path |-> imageDir]
        ELSE IF videoPath # "" THEN [type |-> "Video", path |-> videoPath]
        ELSE IF ipCamera # "" THEN [type |-> "IPCamera", path |-> ipCamera]
        ELSE IF Len(flagsToPoint(webcamResolution)) = 0 THEN [type |-> Error]
        ELSE [type |-> "Webcam", index |-> webcamIndex,
              resolution |-> flagsToPoint(webcamResolution), fps |-> webcamFps]

flagsToPoseModel(poseModeString) ==
    CASE poseModeString = "COCO"         -> "COCO_18"
      [] poseModeString = "MPI"          -> "MPI_15"
      [] poseModeString = "MPI_4_layers" -> "MPI_15_4"
      [] OTHER                           -> Error

flagsToScaleMode(keypointScale) ==
    CASE keypointScale = 0 -> "InputResolution"
      [] keypointScale = 1 -> "NetOutputResolution"
      [] keypointScale = 2 -> "OutputResolution"
      [] keypointScale = 3 -> "ZeroToOne"
      [] keypointScale = 4 -> "PlusMinusOne"
      [] OTHER             -> Error

flagsToHeatMaps(heatMapsAddParts, heatMapsAddBkg, heatMapsAddPAFs) ==
    (IF heatMapsAddParts THEN {"Parts"} ELSE {})
    \cup (IF heatMapsAddBkg THEN {"Background"} ELSE {})
    \cup (IF heatMapsAddPAFs THEN {"PAFs"} ELSE {})

\* renderPoseFlag = -2 is the value of the argument when the caller omits it
flagsToRenderMode(renderFlag, renderPoseFlag) ==
    LET direct(r) == CASE r = 0 -> "None"
                       [] r = 1 -> "Cpu"
                       [] r = 2 -> "Gpu"
                       [] OTHER -> Error
    IN  IF renderFlag = -1 /\ renderPoseFlag # -2
        THEN direct(renderPoseFlag)
        ELSE direct(renderFlag)

stringToDataFormat(dataFormat) ==
    CASE dataFormat = "json" -> "Json"
      [] dataFormat = "xml"  -> "Xml"
      [] dataFormat = "yaml" -> "Yaml"
      [] dataFormat = "yml"  -> "Yml"
      [] OTHER               -> Error

(***************************************************************************)
(* openPoseDemo, lines 178-291.                                            *)
(***************************************************************************)
WrongLoggingLevel == "Wrong logging_level value."
LibraryError == "library error"

\* lines 191-207
convertFlags(f) ==
    [ outputSize |-> flagsToPoint(f.output_resolution),
      netInputSize |-> flagsToPoint(f.net_resolution),
      faceNetInputSize |-> flagsToPoint(f.face_net_resolution),
      handNetInputSize |-> flagsToPoint(f.hand_net_resolution),
      producerSharedPtr |-> flagsToProducer(f.image_dir, f.video, f.ip_camera, f.camera,
                                            f.camera_resolution, f.camera_fps),
      poseModel |-> flagsToPoseModel(f.model_pose),
      keypointScale |-> flagsToScaleMode(f.keypoint_scale),
      heatMapTypes |-> flagsToHeatMaps(f.heatmaps_add_parts, f.heatmaps_add_bkg,
                                       f.heatmaps_add_PAFs) ]

conversionRaised(c) ==
    \/ Len(c.outputSize) = 0
    \/ Len(c.netInputSize) = 0
    \/ Len(c.faceNetInputSize) = 0
    \/ Len(c.handNetInputSize) = 0
    \/ c.producerSharedPtr.type = Error
    \/ c.poseModel = Error
    \/ c.keypointScale = Error

\* lines 217-224
wrapperStructPose(f, c) ==
    [ enable |-> ~f.body_disable,
      netInputSize |-> c.netInputSize,
      outputSize |-> c.outputSize,
      keypointScale |-> c.keypointScale,
      gpuNumber |-> f.num_gpu,
      gpuNumberStart |-> f.num_gpu_start,
      scalesNumber |-> f.scale_number,
      scaleGap |-> ToFloat(f.scale_gap),
      renderMode |-> flagsToRenderMode(f.render_pose, -2),
      poseModel |-> c.poseModel,
      blendOriginalFrame |-> ~f.disable_blending,
      alphaKeypoint |-> ToFloat(f.alpha_pose),
      alphaHeatMap |-> ToFloat(f.alpha_heatmap),
      defaultPartToRender |-> f.part_to_show,
      modelFolder |-> f.model_folder,
      heatMapTypes |-> c.heatMapTypes,
      heatMapScale |-> "UnsignedChar",
      renderThreshold |-> ToFloat(f.render_threshold),
      enableGoogleLogging |-> TRUE,
      identification |-> f.identification ]

wrapperStructFace_swapped(f, c) ==
    [ enable |-> f.face,
      netInputSize |-> c.faceNetInputSize,
      renderMode |-> flagsToRenderMode(f.render_pose, f.face_render),
      alphaKeypoint |-> ToFloat(f.face_alpha_pose),
      alphaHeatMap |-> ToFloat(f.face_alpha_heatmap),
      renderThreshold |-> ToFloat(f.face_render_threshold) ]

\* lines 226-229
wrapperStructFace(f, c) ==
    [ enable |-> f.face,
      netInputSize |-> c.faceNetInputSize,
      renderMode |-> flagsToRenderMode(f.face_render, f.render_pose),
      alphaKeypoint |-> ToFloat(f.face_alpha_pose),
      alphaHeatMap |-> ToFloat(f.face_alpha_heatmap),
      renderThreshold |-> ToFloat(f.face_render_threshold) ]

\* lines 231-235
wrapperStructHand(f, c) ==
    [ enable |-> f.hand,
      netInputSize |-> c.handNetInputSize,
      scalesNumber |-> f.hand_scale_number,
      scaleRange |-> ToFloat(f.hand_scale_range),
      tracking |-> f.hand_tracking,
      renderMode |-> flagsToRenderMode(f.hand_render, f.render_pose),
      alphaKeypoint |-> ToFloat(f.hand_alpha_pose),
      alphaHeatMap |-> ToFloat(f.hand_alpha_heatmap),
      renderThreshold |-> ToFloat(f.hand_render_threshold) ]

wrapperStructInput_swapped(f, c) ==
    [ producerSharedPtr |-> c.producerSharedPtr,
      frameFirst |-> f.frame_last,
      frameLast |-> f.frame_first,
      realTimeProcessing |-> f.process_real_time,
      frameFlip |-> f.frame_flip,
      frameRotate |-> f.frame_rotate,
      framesRepeat |-> f.frames_repeat ]

wrapperStructInput_rotateNormalised(f, c) ==
    [ producerSharedPtr |-> c.producerSharedPtr,
      frameFirst |-> f.frame_first,
      frameLast |-> f.frame_last,
      realTimeProcessing |-> f.process_real_time,
      frameFlip |-> f.frame_flip,
      frameRotate |-> (f.frame_rotate \div 90) * 90,
      framesRepeat |-> f.frames_repeat ]

\* lines 237-239
wrapperStructInput(f, c) ==
    [ producerSharedPtr |-> c.producerSharedPtr,
      frameFirst |-> f.frame_first,
      frameLast |-> f.frame_last,
      realTimeProcessing |-> f.process_real_time,
      frameFlip |-> f.frame_flip,
      frameRotate |-> f.frame_rotate,
      framesRepeat |-> f.frames_repeat ]

wrapperStructOutput_notNegated(f, c) ==
    [ displayGui |-> f.no_display,
      guiVerbose |-> ~f.no_gui_verbose,
      fullScreen |-> f.fullscreen,
      writeKeypoint |-> f.write_keypoint,
      writeKeypointFormat |-> stringToDataFormat(f.write_keypoint_format),
      writeKeypointJson |-> f.write_keypoint_json,
      writeCocoJson |-> f.write_coco_json,
      writeImages |-> f.write_images,
      writeImagesFormat |-> f.write_images_format,
      writeVideo |-> f.write_video,
      writeHeatMaps |-> f.write_heatmaps,
      writeHeatMapsFormat |-> f.write_heatmaps_format ]

\* lines 241-246
wrapperStructOutput(f, c) ==
    [ displayGui |-> ~f.no_display,
      guiVerbose |-> ~f.no_gui_verbose,
      fullScreen |-> f.fullscreen,
      writeKeypoint |-> f.write_keypoint,
      writeKeypointFormat |-> stringToDataFormat(f.write_keypoint_format),
      writeKeypointJson |-> f.write_keypoint_json,
      writeCocoJson |-> f.write_coco_json,
      writeImages |-> f.write_images,
      writeImagesFormat |-> f.write_images_format,
      writeVideo |-> f.write_video,
      writeHeatMaps |-> f.write_heatmaps,
      writeHeatMapsFormat |-> f.write_heatmaps_format ]

\* lines 215-246: the five structs, in the order of the arguments of configure
buildStructs(f, c) ==
    [ pose |-> wrapperStructPose(f, c),
      face |-> wrapperStructFace(f, c),
      hand |-> wrapperStructHand(f, c),
      input |-> wrapperStructInput(f, c),
      output |-> wrapperStructOutput(f, c) ]

constructionRaised(s) ==
    \/ s.pose.renderMode = Error
    \/ s.face.renderMode = Error
    \/ s.hand.renderMode = Error
    \/ s.output.writeKeypointFormat = Error

\* variants of the three definitions below, used to show that the properties
\* depend on them
loggingLevelInRange_upperOpen(f) == 0 <= f.logging_level /\ f.logging_level <= 256

singleThreadSelected_negated(f) == ~f.disable_multi_thread

pipelineCall_start == "start"

\* line 181: the condition handed to op::check
loggingLevelInRange(f) == 0 <= f.logging_level /\ f.logging_level <= 255

\* line 251: the condition under which disableMultiThreading is called
singleThreadSelected(f) == f.disable_multi_thread

\* line 259: the wrapper method that runs the pipeline.  exec starts the threads
\* and blocks until all of them have finished; start (lines 261-280, commented
\* out) returns at once.
pipelineCall == "exec"

\* lines 180-290: the statement that follows each statement of openPoseDemo
after_skipConfigure(step) ==
    CASE step = "check"                 -> "setThreshold"
      [] step = "setThreshold"          -> "convert"
      [] step = "convert"               -> "construct"
      [] step = "construct"             -> "disableMultiThreading"
      [] step = "configure"             -> "disableMultiThreading"
      [] step = "disableMultiThreading" -> "exec"
      [] step = "exec"                  -> "measure"
      [] step = "measure"               -> "returned"

after_skipExec(step) ==
    CASE step = "check"                 -> "setThreshold"
      [] step = "setThreshold"          -> "convert"
      [] step = "convert"               -> "construct"
      [] step = "construct"             -> "configure"
      [] step = "configure"             -> "disableMultiThreading"
      [] step = "disableMultiThreading" -> "measure"
      [] step = "exec"                  -> "measure"
      [] step = "measure"               -> "returned"

after(step) ==
    CASE step = "check"                 -> "setThreshold"
      [] step = "setThreshold"          -> "convert"
      [] step = "convert"               -> "construct"
      [] step = "construct"             -> "configure"
      [] step = "configure"             -> "disableMultiThreading"
      [] step = "disableMultiThreading" -> "exec"
      [] step = "exec"                  -> "measure"
      [] step = "measure"               -> "returned"

Init ==
    /\ pc = "idle"
    /\ calls = 0
    /\ flags = DefaultFlags
    /\ parsedCommandLine = FALSE
    /\ priorityThreshold = <<>>
    /\ thresholdSetInCall = FALSE
    /\ errorMessage = <<>>
    /\ converted = <<>>
    /\ structs = <<>>
    /\ configured = <<>>
    /\ configureCalls = 0
    /\ singleThread = FALSE
    /\ execCalls = 0
    /\ threads = {}
    /\ result = <<>>
    /\ trace = <<>>

\* the host calls the exported function; the FLAGS_ globals hold f
Call ==
    /\ pc \in {"idle", "returned"}
    /\ calls < MaxCalls
    /\ \E f \in FlagValues : flags' = f
    /\ pc' = "check"
    /\ calls' = calls + 1
    /\ thresholdSetInCall' = FALSE
    /\ errorMessage' = <<>>
    /\ converted' = <<>>
    /\ structs' = <<>>
    /\ configured' = <<>>
    /\ configureCalls' = 0
    /\ singleThread' = FALSE
    /\ execCalls' = 0
    /\ threads' = {}
    /\ result' = <<>>
    /\ trace' = <<>>
    /\ UNCHANGED <<parsedCommandLine, priorityThreshold>>

\* an error raised inside openPoseDemo leaves it: nothing in it catches
Raise(message) ==
    /\ pc' = "threw"
    /\ errorMessage' = <<message>>

\* lines 181-182
CheckLoggingLevel ==
    /\ pc = "check"
    /\ LET raised == check(loggingLevelInRange(flags), WrongLoggingLevel)
       IN  IF Len(raised) = 0
           THEN /\ pc' = after("check")
                /\ trace' = Append(trace, "check")
                /\ UNCHANGED errorMessage
           ELSE /\ Raise(raised[1])
                /\ UNCHANGED trace
    /\ UNCHANGED <<calls, flags, parsedCommandLine, priorityThreshold, thresholdSetInCall,
                   converted, structs, configured, configureCalls, singleThread,
                   execCalls, threads, result>>

\* line 183
SetPriorityThreshold ==
    /\ pc = "setThreshold"
    /\ priorityThreshold' = <<ToPriority(flags.logging_level)>>
    /\ thresholdSetInCall' = TRUE
    /\ pc' = after("setThreshold")
    /\ trace' = Append(trace, "setThreshold")
    /\ UNCHANGED <<calls, flags, parsedCommandLine, errorMessage, converted, structs,
                   configured, configureCalls, singleThread, execCalls, threads, result>>

\* lines 191-207
ConvertFlags ==
    /\ pc = "convert"
    /\ LET c == convertFlags(flags)
       IN  IF conversionRaised(c)
           THEN /\ Raise(LibraryError)
                /\ UNCHANGED <<converted, trace>>
           ELSE /\ converted' = <<c>>
                /\ pc' = after("convert")
                /\ trace' = Append(trace, "convert")
                /\ UNCHANGED errorMessage
    /\ UNCHANGED <<calls, flags, parsedCommandLine, priorityThreshold, thresholdSetInCall,
                   structs, configured, configureCalls, singleThread, execCalls,
                   threads, result>>

\* lines 215-246
ConstructStructs ==
    /\ pc = "construct"
    /\ LET s == buildStructs(flags, converted[1])
       IN  IF constructionRaised(s)
           THEN /\ Raise(LibraryError)
                /\ UNCHANGED <<structs, trace>>
           ELSE /\ structs' = <<s>>
                /\ pc' = after("construct")
                /\ trace' = Append(trace, "construct")
                /\ UNCHANGED errorMessage
    /\ UNCHANGED <<calls, flags, parsedCommandLine, priorityThreshold, thresholdSetInCall,
                   converted, configured, configureCalls, singleThread, execCalls,
                   threads, result>>

\* lines 248-249; the library may reject the configuration
Configure ==
    /\ pc = "configure"
    /\ configured' = structs
    /\ configureCalls' = configureCalls + 1
    /\ \E accepted \in BOOLEAN :
          IF accepted
          THEN /\ pc' = after("configure")
               /\ trace' = Append(trace, "configure")
               /\ UNCHANGED errorMessage
          ELSE /\ Raise(LibraryError)
               /\ UNCHANGED trace
    /\ UNCHANGED <<calls, flags, parsedCommandLine, priorityThreshold, thresholdSetInCall,
                   converted, structs, singleThread, execCalls, threads, result>>

\* lines 251-252
DisableMultiThreading ==
    /\ pc = "disableMultiThreading"
    /\ IF singleThreadSelected(flags)
       THEN /\ singleThread' = TRUE
            /\ trace' = Append(trace, "disableMultiThreading")
       ELSE UNCHANGED <<singleThread, trace>>
    /\ pc' = after("disableMultiThreading")
    /\ UNCHANGED <<calls, flags, parsedCommandLine, priorityThreshold, thresholdSetInCall,
                   errorMessage, converted, structs, configured, configureCalls,
                   execCalls, threads, result>>

\* line 259, entry: the pipeline threads start (none besides the caller in
\* single-thread mode)
Exec ==
    /\ pc = "exec"
    /\ execCalls' = execCalls + 1
    /\ threads' = IF singleThread THEN {} ELSE 1 .. NumPipelineThreads
    /\ pc' = "inExec"
    /\ UNCHANGED <<calls, flags, parsedCommandLine, priorityThreshold, thresholdSetInCall,
                   errorMessage, converted, structs, configured, configureCalls,
                   singleThread, result, trace>>

\* a pipeline thread finishes
ThreadFinishes ==
    /\ \E t \in threads : threads' = threads \ {t}
    /\ UNCHANGED <<pc, calls, flags, parsedCommandLine, priorityThreshold,
                   thresholdSetInCall, errorMessage, converted, structs, configured,
                   configureCalls, singleThread, execCalls, result, trace>>

\* line 259, return
ExecReturns ==
    /\ pc = "inExec"
    /\ pipelineCall = "exec" => threads = {}
    /\ pc' = after("exec")
    /\ trace' = Append(trace, "exec")
    /\ UNCHANGED <<calls, flags, parsedCommandLine, priorityThreshold, thresholdSetInCall,
                   errorMessage, converted, structs, configured, configureCalls,
                   singleThread, execCalls, threads, result>>

\* lines 283-290
Return ==
    /\ pc = "measure"
    /\ result' = <<0>>
    /\ pc' = after("measure")
    /\ trace' = Append(trace, "return")
    /\ UNCHANGED <<calls, flags, parsedCommandLine, priorityThreshold, thresholdSetInCall,
                   errorMessage, converted, structs, configured, configureCalls,
                   singleThread, execCalls, threads>>

Next ==
    \/ Call
    \/ CheckLoggingLevel
    \/ SetPriorityThreshold
    \/ ConvertFlags
    \/ ConstructStructs
    \/ Configure
    \/ DisableMultiThreading
    \/ Exec
    \/ ThreadFinishes
    \/ ExecReturns
    \/ Return

Spec == Init /\ [][Next]_vars

(***************************************************************************)
(* Helpers of the properties.                                              *)
(***************************************************************************)
InTrace(step) == \E i \in 1 .. Len(trace) : trace[i] = step

\* position of step in trace (0 if absent)
IndexOf(step) ==
    IF InTrace(step) THEN CHOOSE i \in 1 .. Len(trace) : trace[i] = step ELSE 0

Occurrences(step) == Cardinality({i \in 1 .. Len(trace) : trace[i] = step})

IsPrefix(s, t) == Len(s) <= Len(t) /\ \A i \in 1 .. Len(s) : s[i] = t[i]

IsMainStep(step) == step \in {"check", "convert", "construct", "configure", "exec"}

LoggingLevelOutOfRange == flags.logging_level < 0 \/ flags.logging_level > 255

RenderModeOfValue(r) ==
    CASE r = 0 -> "None"
      [] r = 1 -> "Cpu"
      [] r = 2 -> "Gpu"

\* float f is a single-precision value nearest to double d
IsNearestFloat(f, d) ==
    IF d.hi = 0 /\ d.lo = 0
    THEN f.mant = 0
    ELSE /\ f.neg = d.neg
         /\ \/ f.mant = d.hi /\ f.exp = d.exp + LowBits /\ d.lo <= LowHalf
            \/ /\ d.hi + 1 < FloatMantLimit
               /\ f.mant = d.hi + 1 /\ f.exp = d.exp + LowBits /\ d.lo >= LowHalf
            \/ /\ d.hi + 1 = FloatMantLimit
               /\ f.mant = FloatMantLimit \div 2 /\ f.exp = d.exp + LowBits + 1
               /\ d.lo >= LowHalf

\* float f has exactly the value of double d
IsSameValue(f, d) == FloatAsDouble(f) = d

FrameIndexSamples ==
    {Uint64FromInt(0), Uint64FromInt(1), Uint64FromInt(70000), Uint64FromInt(-2)}

(***************************************************************************)
(* C1: in every call the steps logging_level validation, flag conversions, *)
(* construction of the structs, configure, exec happen in this order;      *)
(* exec is not reached unless configure completed before it in the same    *)
(* call, and configure is called at most once per call.                    *)
(***************************************************************************)
C1_FixedStepOrder ==
    /\ IsPrefix(SelectSeq(trace, IsMainStep),
                <<"check", "convert", "construct", "configure", "exec">>)
    /\ configureCalls <= 1
    /\ Occurrences("configure") <= 1
    /\ execCalls > 0 => InTrace("configure") /\ configureCalls = 1
    /\ pc \in {"exec", "inExec"} => InTrace("configure")
    /\ configureCalls = 1 => Len(structs) = 1 /\ configured = structs

C1_Witness ==
    /\ pc = "returned"
    /\ SelectSeq(trace, IsMainStep) = <<"check", "convert", "construct", "configure", "exec">>

(***************************************************************************)
(* C2: with logging_level below 0 or above 255 the check raises "Wrong     *)
(* logging_level value." before the priority threshold is set, and in that *)
(* call configure and exec are not called and 0 is not returned; with      *)
(* logging_level in range the threshold is set to exactly that value.      *)
(***************************************************************************)
C2_LoggingLevelChecked ==
    /\ LoggingLevelOutOfRange /\ pc \notin {"idle", "check"}
          => /\ pc = "threw"
             /\ errorMessage = <<WrongLoggingLevel>>
             /\ ~thresholdSetInCall
             /\ configureCalls = 0
             /\ execCalls = 0
             /\ result # <<0>>
    /\ ~LoggingLevelOutOfRange /\ pc \notin {"idle", "check", "setThreshold"}
          => /\ thresholdSetInCall
             /\ priorityThreshold = <<flags.logging_level>>

C2_Witness ==
    /\ pc = "threw"
    /\ flags.logging_level = 256
    /\ errorMessage = <<WrongLoggingLevel>>
    /\ priorityThreshold = <<3>>

(***************************************************************************)
(* C3: exec is called exactly once per completed call and blocks until all *)
(* pipeline threads have finished: once openPoseDemo has returned, no      *)
(* pipeline thread started by that call is still running.                  *)
(***************************************************************************)
C3_NoThreadRunsAfterReturn ==
    /\ pc = "returned" => execCalls = 1 /\ threads = {}
    /\ pc = "measure" => execCalls = 1 /\ threads = {}
    /\ execCalls <= 1

C3_Witness ==
    /\ pc = "returned"
    /\ ~singleThread
    /\ execCalls = 1
    /\ threads = {}

(***************************************************************************)
(* C4: a normal return yields 0, and 0 is returned only after configure    *)
(* and exec have been called and exec has returned.                        *)
(***************************************************************************)
C4_ZeroOnlyAfterExec ==
    /\ pc = "returned" => result = <<0>>
    /\ Len(result) > 0
          => /\ result = <<0>>
             /\ pc = "returned"
             /\ configureCalls = 1
             /\ execCalls = 1
             /\ InTrace("configure")
             /\ InTrace("exec")
             /\ IndexOf("configure") < IndexOf("exec")

C4_Witness == pc = "returned" /\ result = <<0>> /\ InTrace("exec")

(***************************************************************************)
(* C5: by the time openPoseDemo reads a FLAGS_ value, the command line has *)
(* been parsed by gflags::ParseCommandLineFlags.                           *)
(***************************************************************************)
C5_ParsedBeforeFlagsRead == pc # "idle" => parsedCommandLine

(***************************************************************************)
(* C6: disableMultiThreading is called if and only if disable_multi_thread *)
(* is true, and then after configure and before exec.                      *)
(***************************************************************************)
C6_SingleThreadIffFlag ==
    /\ pc \in {"exec", "inExec", "measure", "returned"}
          => (singleThread <=> flags.disable_multi_thread)
    /\ singleThread <=> InTrace("disableMultiThreading")
    /\ singleThread
          => /\ flags.disable_multi_thread
             /\ InTrace("configure")
             /\ IndexOf("configure") < IndexOf("disableMultiThreading")
             /\ InTrace("exec") => IndexOf("disableMultiThreading") < IndexOf("exec")
    /\ execCalls > 0 /\ ~singleThread => ~flags.disable_multi_thread

C6_Witness ==
    /\ pc = "returned"
    /\ singleThread
    /\ flags.disable_multi_thread

(***************************************************************************)
(* C7: with face_render = -1 the face render mode is the body render mode  *)
(* derived from render_pose, and with face_render in {0, 1, 2} it depends  *)
(* on face_render alone; likewise for hand_render.                         *)
(***************************************************************************)
C7_RenderModeFallsBackToPose ==
    Len(configured) = 1 =>
        LET s == configured[1]
        IN  /\ flags.face_render = -1 => s.face.renderMode = s.pose.renderMode
            /\ flags.face_render \in {0, 1, 2}
                  => s.face.renderMode = RenderModeOfValue(flags.face_render)
            /\ flags.hand_render = -1 => s.hand.renderMode = s.pose.renderMode
            /\ flags.hand_render \in {0, 1, 2}
                  => s.hand.renderMode = RenderModeOfValue(flags.hand_render)
            /\ s.pose.renderMode = RenderModeOfValue(flags.render_pose)

C7_Witness ==
    /\ Len(configured) = 1
    /\ flags.face_render = -1
    /\ flags.hand_render = 0
    /\ flags.render_pose = 1
    /\ configured[1].face.renderMode = "Cpu"
    /\ configured[1].hand.renderMode = "None"

(***************************************************************************)
(* C8: the default -1 of frame_last is stored as 2^64 - 1; frame_first and *)
(* frame_last reach the input struct unchanged; with the defaults          *)
(* frame_first <= frame_last and every frame index below 2^64 - 1 is       *)
(* within the limit.                                                       *)
(***************************************************************************)
C8_FrameLastDisabledByDefault ==
    /\ calls = 0 => flags.frame_last = Uint64Max /\ flags.frame_first = <<0, 0, 0, 0>>
    /\ Len(configured) = 1
          => /\ configured[1].input.frameFirst = flags.frame_first
             /\ configured[1].input.frameLast = flags.frame_last
    /\ Len(configured) = 1 /\ flags.frame_first = DefaultFlags.frame_first
          /\ flags.frame_last = DefaultFlags.frame_last
          => /\ Uint64Leq(configured[1].input.frameFirst, configured[1].input.frameLast)
             /\ \A i \in FrameIndexSamples :
                   Uint64Leq(i, configured[1].input.frameLast)

C8_Witness ==
    /\ Len(configured) = 1
    /\ flags.frame_last = Uint64Max
    /\ configured[1].input.frameLast = <<65535, 65535, 65535, 65535>>
    /\ configured[1].input.frameFirst = <<0, 0, 0, 0>>

(***************************************************************************)
(* C9: body_disable, disable_blending, no_display and no_gui_verbose reach *)
(* the structs negated; face, hand, hand_tracking, fullscreen,             *)
(* process_real_time, frame_flip, frames_repeat and identification reach   *)
(* them unchanged.                                                         *)
(***************************************************************************)
C9_BooleanFlagsPassed ==
    Len(configured) = 1 =>
        LET s == configured[1]
        IN  /\ s.pose.enable = ~flags.body_disable
            /\ s.pose.blendOriginalFrame = ~flags.disable_blending
            /\ s.output.displayGui = ~flags.no_display
            /\ s.output.guiVerbose = ~flags.no_gui_verbose
            /\ s.face.enable = flags.face
            /\ s.hand.enable = flags.hand
            /\ s.hand.tracking = flags.hand_tracking
            /\ s.output.fullScreen = flags.fullscreen
            /\ s.input.realTimeProcessing = flags.process_real_time
            /\ s.input.frameFlip = flags.frame_flip
            /\ s.input.framesRepeat = flags.frames_repeat
            /\ s.pose.identification = flags.identification

C9_Witness ==
    /\ Len(configured) = 1
    /\ flags.no_display /\ ~flags.no_gui_verbose /\ flags.body_disable
    /\ ~configured[1].output.displayGui
    /\ configured[1].output.guiVerbose
    /\ ~configured[1].pose.enable

(***************************************************************************)
(* C10: openPoseDemo validates nothing but logging_level.  A call stops    *)
(* before configure only through the logging_level check or a raising      *)
(* library conversion.                                                     *)
(***************************************************************************)
OnlyLoggingLevelValidated ==
    /\ pc = "threw" /\ configureCalls = 0
          => \/ LoggingLevelOutOfRange
             \/ conversionRaised(convertFlags(flags))
             \/ constructionRaised(buildStructs(flags, convertFlags(flags)))
    /\ pc = "threw" /\ errorMessage = <<WrongLoggingLevel>> => LoggingLevelOutOfRange

IntegerValuesUnchanged(s) ==
    /\ s.pose.scalesNumber = flags.scale_number
    /\ s.input.frameRotate = flags.frame_rotate
    /\ s.pose.defaultPartToRender = flags.part_to_show
    /\ s.input.producerSharedPtr.type = "Webcam"
          => s.input.producerSharedPtr.index = flags.camera

\* C10, literally: alpha_pose, alpha_heatmap, scale_gap, scale_number,
\* frame_rotate, camera, part_to_show and the thresholds reach configure
\* unchanged
C10_ValuesUnchanged ==
    /\ OnlyLoggingLevelValidated
    /\ Len(configured) = 1 =>
          LET s == configured[1]
          IN  /\ IntegerValuesUnchanged(s)
              /\ IsSameValue(s.pose.alphaKeypoint, flags.alpha_pose)
              /\ IsSameValue(s.pose.alphaHeatMap, flags.alpha_heatmap)
              /\ IsSameValue(s.pose.scaleGap, flags.scale_gap)
              /\ IsSameValue(s.pose.renderThreshold, flags.render_threshold)
              /\ IsSameValue(s.face.renderThreshold, flags.face_render_threshold)
              /\ IsSameValue(s.hand.renderThreshold, flags.hand_render_threshold)

\* C10, with the casts accounted for: the integer values reach configure unchanged and the
\* double values reach it narrowed to float, that is rounded to a nearest
\* single-precision value, neither clamped nor rejected
C10_ValuesNarrowedToFloat ==
    /\ OnlyLoggingLevelValidated
    /\ Len(configured) = 1 =>
          LET s == configured[1]
          IN  /\ IntegerValuesUnchanged(s)
              /\ IsNearestFloat(s.pose.alphaKeypoint, flags.alpha_pose)
              /\ IsNearestFloat(s.pose.alphaHeatMap, flags.alpha_heatmap)
              /\ IsNearestFloat(s.pose.scaleGap, flags.scale_gap)
              /\ IsNearestFloat(s.pose.renderThreshold, flags.render_threshold)
              /\ IsNearestFloat(s.face.renderThreshold, flags.face_render_threshold)
              /\ IsNearestFloat(s.hand.renderThreshold, flags.hand_render_threshold)

C10_Witness ==
    /\ Len(configured) = 1
    /\ flags.alpha_pose = D_1_5
    /\ flags.scale_gap = D_m0_5
    /\ flags.scale_number = 2
    /\ flags.frame_rotate = 45
    /\ IsSameValue(configured[1].pose.alphaKeypoint, D_1_5)
    /\ configured[1].input.frameRotate = 45

====
